---- MODULE Spec2Model ----
(***************************************************************************)
(* Model of ragbench: the semantic chunker of lib/utils.js and the         *)
(* per-query scorer of evaluate.js.                                        *)
(*                                                                         *)
(* Texts are sequences of words.  A sentence is the one-word text <<k>>    *)
(* (k >= 1) and SP is the blank that Array.join(' ') puts between          *)
(* sentences.  Embedding vectors are sequences of integers; a similarity   *)
(* is kept as the exact triple (dot, normA, normB), or NaN.                *)
(***************************************************************************)
EXTENDS Integers, Sequences, FiniteSets, TLC

\* ---------------------------------------------------------------- bounds
MaxSent == 3        \* sentences in the input text
MaxTok == 2         \* tokens of one sentence
MaxOpt == 3         \* largest minTokens / maxTokens option value
MaxResults == 3     \* length of a ranked results list
MaxQueries == 3     \* queries of one evaluation run
MaxDocs == 3        \* document ids given to downloadCorpusFiles
MaxConcurrency == 2 \* largest concurrency argument
MaxRetries == 3     \* largest retries argument of fetchJson
MaxRuns == 3        \* evaluation runs started against one runs directory
MaxIngestDocs == 3  \* document ids given to the ingestion loop

\* --------------------------------------------------- program constants
ThresholdNum == 13  \* threshold = 0.65 = 13/20
ThresholdDen == 20

SP == 0

VARIABLES
    \* semanticChunkWithLimits
    pc,                 \* "call", "await", "loop", "returned", "thrown"
    text,               \* the input text
    minTokens, maxTokens,
    tokens,             \* tokenizer: sentence word -> encode(sent).length
    sentences,          \* splitIntoSentences(text)
    calls,              \* embedFn invocations per sentence index
    promises,           \* settled embedFn promises: index -> outcome
    sentenceEmbeddings, \* the array Promise.all fills: index -> vector
    i,                  \* loop index (1-based)
    chunks, currentSentences, currentTokens,
    result,             \* <<chunks>> once returned, <<>> before
    error,              \* the error the call rejected with, "none" before
    \* scorer
    spc,                \* "input", "scored"
    results, qrel, mrr,
    metrics,            \* the metrics record evaluateQuery builds
    cutoff,             \* a cutoff k the @k functions are applied to
    recallAtK, precisionAtK,
    \* evaluation run, main of evaluate.js
    epc,                \* "loop", "group", "save", "done", "failed"
    queryCount,         \* queryIds.length; the query ids are 1..queryCount
    qi,                 \* the query the for loop is at
    noQrel,             \* ids of the queries that turned out to have no qrel
    threw,              \* ids of the queries whose evaluateQuery threw
    evaluations,
    aggregateResults,
    byType, bySource,   \* the group lists built by groupMetrics
    groupedResults,
    mainError,          \* the error main rejected with, "none" otherwise
    runFile,            \* <<runResult>> once the run file is written
    runsIndex,          \* runs/index.json
    \* downloadCorpusFiles
    dpc,                \* "batch", "await", "returned"
    docCount,           \* docIds.length; the ids are 1..docCount
    concurrency,
    di,                 \* the loop variable i (0-based offset of the batch)
    onDisk,             \* ids whose corpus file exists
    inFlight,           \* ids whose downloadFile is pending
    completed, failed,
    downloadFailed,     \* ids whose downloadFile rejected
    \* fetchJson
    fpc,                \* "try", "fetching", "waiting", "returned", "thrown"
    retries,
    fi,                 \* the loop variable i
    attempts,           \* fetch calls made so far
    fetching,           \* fetch calls pending
    outcomes,           \* how each attempt ended
    fetchResult,        \* attempt whose JSON was returned, 0 for undefined
    fetchError,         \* the error thrown
    \* the runs directory, shared by evaluate.js and server.js
    rpc,                \* "none", "written": where the evaluation run is
    RUN_NAME,           \* the name of the run being saved
    clock,              \* runs started so far; the timestamp of the last
    runsDir,            \* RUNS_DIR: file stem -> parsed content
    saveError,          \* the error that rejected main of evaluate.js
    response,           \* the last response of the server
    \* main of ingest.js
    ipc,                \* "loop", "upsert", "finalUpsert", "done", "failed"
    corpus,             \* docIds.length; the ids are 1..corpus
    docIdx,             \* position of docId in docIds
    pointId,
    pendingPoints,
    processedDocs, failedDocs,
    totalPoints,
    upserted,           \* the points arrays given to qdrant.upsert
    ingestError         \* the error that rejected main of ingest.js

chunkVars == <<pc, text, minTokens, maxTokens, tokens, sentences, calls,
               promises, sentenceEmbeddings, i, chunks, currentSentences,
               currentTokens, result, error>>
scoreVars == <<spc, results, qrel, mrr, metrics, cutoff, recallAtK, precisionAtK>>
evalVars == <<epc, queryCount, qi, noQrel, threw, evaluations,
              aggregateResults, byType, bySource, groupedResults, mainError,
              runFile, runsIndex>>
downloadVars == <<dpc, docCount, concurrency, di, onDisk, inFlight,
                  completed, failed, downloadFailed>>
fetchVars == <<fpc, retries, fi, attempts, fetching, outcomes, fetchResult,
               fetchError>>
storeVars == <<rpc, RUN_NAME, clock, runsDir, saveError, response>>
ingestVars == <<ipc, corpus, docIdx, pointId, pendingPoints, processedDocs,
                failedDocs, totalPoints, upserted, ingestError>>
vars == <<chunkVars, scoreVars, evalVars, downloadVars, fetchVars, storeVars,
          ingestVars>>

\* ------------------------------------------------------------- helpers
RECURSIVE SumTo(_, _)
SumTo(f, n) == IF n = 0 THEN 0 ELSE f[n] + SumTo(f, n - 1)

RECURSIVE Flatten(_)
Flatten(ss) == IF ss = <<>> THEN <<>> ELSE Head(ss) \o Flatten(Tail(ss))

\* Array.prototype.join(' ')
RECURSIVE join(_)
join(ss) ==
    IF ss = <<>> THEN <<>>
    ELSE IF Len(ss) = 1 THEN Head(ss)
    ELSE Head(ss) \o <<SP>> \o join(Tail(ss))

\* the sentences of a text, split at the blanks, empty pieces dropped
RECURSIVE splitIntoSentences(_)
splitIntoSentences(t) ==
    IF t = <<>> THEN <<>>
    ELSE IF Head(t) = SP THEN splitIntoSentences(Tail(t))
    ELSE <<(<<Head(t)>>)>> \o splitIntoSentences(Tail(t))

\* encode(sent).length
encodeLength(sent) == tokens[sent[1]]

\* --------------------------------------------------- cosineSimilarity
NaN == [nan |-> TRUE, dot |-> 0, normA |-> 0, normB |-> 0]

\* b[k] past the end of b is undefined, and a[k] * undefined is NaN;
\* a zero norm gives 0 / 0, NaN again.
cosineSimilarity(a, b) ==
    LET dot   == SumTo([k \in 1..Len(a) |-> a[k] * b[k]], Len(a))
        normA == SumTo([k \in 1..Len(a) |-> a[k] * a[k]], Len(a))
        normB == SumTo([k \in 1..Len(a) |-> b[k] * b[k]], Len(a))
    IN  IF Len(a) > Len(b) THEN NaN
        ELSE IF normA * normB = 0 THEN NaN
        ELSE [nan |-> FALSE, dot |-> dot, normA |-> normA, normB |-> normB]

\* similarity < num/den, for num/den >= 0; false for NaN
LessThan(sim, num, den) ==
    /\ ~sim.nan
    /\ \/ sim.dot < 0
       \/ sim.dot * sim.dot * den * den < num * num * sim.normA * sim.normB

\* ------------------------------------------------ semanticChunkWithLimits
Vectors == { <<1, 0>>, <<0, 1>>, <<0, 0>>, <<1>> }

NoError == [kind |-> "none", from |-> 0]

\* the text whose segmentation is the sentences <<1>>, ..., <<n>>
TextOf(n) == join([k \in 1..n |-> <<k>>])

Texts == { TextOf(n) : n \in 0..MaxSent } \cup { <<SP>> }

\* embedFn invoked a second time for every sentence
embedAllRetry(n) == [k \in 1..n |-> 2]

\* sentences.map(s => embedFn(s)): how often embedFn is invoked per index
embedAll(n) == [k \in 1..n |-> 1]

\* values stored in the order the promises complete
CollectInCompletionOrder(arr, k, v) ==
    ((Cardinality(DOMAIN arr) + 1) :> v) @@ arr

\* Promise.all stores the value of the k-th promise at index k
Collect(arr, k, v) == (k :> v) @@ arr

\* the token test fires one token early
shouldSplitAtLimit(similarity, curTokens, sentTokens) ==
    \/ LessThan(similarity, ThresholdNum, ThresholdDen)
    \/ curTokens + sentTokens >= maxTokens

shouldSplit(similarity, curTokens, sentTokens) ==
    \/ LessThan(similarity, ThresholdNum, ThresholdDen)
    \/ curTokens + sentTokens > maxTokens

\* the minTokens guard left out
splitHereNoMin(should, curTokens) == should

\* the condition of the if that closes the chunk in progress
splitHere(should, curTokens) == should /\ curTokens >= minTokens

\* chunks.push(currentSentences.join(' '))
flush(chs, cur) == Append(chs, join(cur))

\* the sentence that opens the new chunk is lost
newBufferDrop(sent) == <<>>

\* currentSentences = [sent]
newBuffer(sent) == <<sent>>

InitChunk ==
    /\ pc = "call"
    /\ text \in Texts
    /\ minTokens \in 1..MaxOpt
    /\ maxTokens \in 1..MaxOpt
    /\ tokens \in [1..Len(splitIntoSentences(text)) -> 1..MaxTok]
    /\ sentences = <<>>
    /\ calls = <<>>
    /\ promises = <<>>
    /\ sentenceEmbeddings = <<>>
    /\ i = 0
    /\ chunks = <<>>
    /\ currentSentences = <<>>
    /\ currentTokens = 0
    /\ result = <<>>
    /\ error = NoError

IdleChunk ==
    /\ pc = "idle"
    /\ text = <<>>
    /\ minTokens = 1
    /\ maxTokens = 1
    /\ tokens = <<>>
    /\ sentences = <<>>
    /\ calls = <<>>
    /\ promises = <<>>
    /\ sentenceEmbeddings = <<>>
    /\ i = 0
    /\ chunks = <<>>
    /\ currentSentences = <<>>
    /\ currentTokens = 0
    /\ result = <<>>
    /\ error = NoError

Pending == { k \in 1..Len(sentences) : k \notin DOMAIN promises }

\* lines 49-50 up to the await: segment, then start one embedFn per sentence
Call ==
    /\ pc = "call"
    /\ sentences' = splitIntoSentences(text)
    /\ calls' = embedAll(Len(sentences'))
    /\ pc' = "await"
    /\ UNCHANGED <<text, minTokens, maxTokens, tokens, promises,
                   sentenceEmbeddings, i, chunks, currentSentences,
                   currentTokens, result, error>>

\* an embedFn promise fulfils with some vector
Fulfil ==
    /\ pc \in {"await", "thrown"}
    /\ \E k \in Pending, v \in Vectors :
          /\ promises' = (k :> [ok |-> TRUE, val |-> v, err |-> NoError])
                            @@ promises
          /\ sentenceEmbeddings' = Collect(sentenceEmbeddings, k, v)
    /\ UNCHANGED <<pc, text, minTokens, maxTokens, tokens, sentences, calls,
                   i, chunks, currentSentences, currentTokens, result, error>>

\* an embedFn promise rejects; the first rejection rejects Promise.all and
\* the await rethrows its reason
Reject ==
    /\ pc \in {"await", "thrown"}
    /\ \E k \in Pending :
          LET e == [kind |-> "EmbeddingUnavailable", from |-> k] IN
          /\ promises' = (k :> [ok |-> FALSE, val |-> <<>>, err |-> e])
                            @@ promises
          /\ IF pc = "await"
             THEN pc' = "thrown" /\ error' = e
             ELSE UNCHANGED <<pc, error>>
    /\ UNCHANGED <<text, minTokens, maxTokens, tokens, sentences, calls,
                   sentenceEmbeddings, i, chunks, currentSentences,
                   currentTokens, result>>

\* every promise fulfilled: the await resumes and the loop starts
Resume ==
    /\ pc = "await"
    /\ \A k \in 1..Len(sentences) : k \in DOMAIN promises /\ promises[k].ok
    /\ pc' = "loop"
    /\ i' = 1
    /\ UNCHANGED <<text, minTokens, maxTokens, tokens, sentences, calls,
                   promises, sentenceEmbeddings, chunks, currentSentences,
                   currentTokens, result, error>>

\* one iteration of the for loop, lines 56-82, on the loop's locals
\* st = [i, chunks, currentSentences, currentTokens]; emb is the array of
\* sentence embeddings
loopBody(emb, st) ==
    LET sent == sentences[st.i]
        sentEmbedding == emb[st.i]
        sentTokens == encodeLength(sent)
        appended == [i |-> st.i + 1,
                     chunks |-> st.chunks,
                     currentSentences |-> Append(st.currentSentences, sent),
                     currentTokens |-> st.currentTokens + sentTokens]
    IN  IF st.currentSentences = <<>> THEN appended
        ELSE LET prevEmbedding == emb[st.i - 1]
                 similarity == cosineSimilarity(prevEmbedding, sentEmbedding)
                 should == shouldSplit(similarity, st.currentTokens, sentTokens)
             IN  IF splitHere(should, st.currentTokens)
                 THEN [i |-> st.i + 1,
                       chunks |-> flush(st.chunks, st.currentSentences),
                       currentSentences |-> newBuffer(sent),
                       currentTokens |-> sentTokens]
                 ELSE appended

\* lines 84-86: the flush after the loop
finalChunks(st) ==
    IF st.currentSentences # <<>>
    THEN flush(st.chunks, st.currentSentences) ELSE st.chunks

LoopStep ==
    /\ pc = "loop"
    /\ i <= Len(sentences)
    /\ LET st == loopBody(sentenceEmbeddings,
                          [i |-> i, chunks |-> chunks,
                           currentSentences |-> currentSentences,
                           currentTokens |-> currentTokens])
       IN  /\ i' = st.i
           /\ chunks' = st.chunks
           /\ currentSentences' = st.currentSentences
           /\ currentTokens' = st.currentTokens
    /\ UNCHANGED <<pc, text, minTokens, maxTokens, tokens, sentences, calls,
                   promises, sentenceEmbeddings, result, error>>

\* lines 84-88: flush what is left and return
Return ==
    /\ pc = "loop"
    /\ i > Len(sentences)
    /\ chunks' = finalChunks([i |-> i, chunks |-> chunks,
                              currentSentences |-> currentSentences,
                              currentTokens |-> currentTokens])
    /\ result' = <<chunks'>>
    /\ pc' = "returned"
    /\ UNCHANGED <<text, minTokens, maxTokens, tokens, sentences, calls,
                   promises, sentenceEmbeddings, i, currentSentences,
                   currentTokens, error>>

\* ------------------------------------------------------------- scorer
DocIds == {"A", "B"}
SectionIds == {1, 2}
Items == [doc_id : DocIds, section_id : SectionIds]

RECURSIVE SeqsUpTo(_, _)
SeqsUpTo(S, n) ==
    IF n = 0 THEN { <<>> }
    ELSE LET shorter == SeqsUpTo(S, n - 1)
         IN  shorter \cup { Append(q, x) : q \in shorter, x \in S }

Zero == [num |-> 0, den |-> 1]

\* the section is not compared
isRelevantDocOnly(r, q) == r.doc_id = q.doc_id

isRelevant(r, q) == r.doc_id = q.doc_id /\ r.section_id = q.section_id

\* the for loop of calculateMRR from position k on (k is 1-based: the
\* code's rank i is k - 1, so 1 / (i + 1) is 1 / k)
RECURSIVE mrrScan(_, _, _)
mrrScan(rs, q, k) ==
    IF k > Len(rs) THEN Zero
    ELSE IF isRelevant(rs[k], q) THEN [num |-> 1, den |-> k]
    ELSE mrrScan(rs, q, k + 1)

calculateMRR(rs, q) == mrrScan(rs, q, 1)

isDocumentMatch(r, q) == r.doc_id = q.doc_id

RECURSIVE docMrrScan(_, _, _)
docMrrScan(rs, q, p) ==
    IF p > Len(rs) THEN Zero
    ELSE IF isDocumentMatch(rs[p], q) THEN [num |-> 1, den |-> p]
    ELSE docMrrScan(rs, q, p + 1)

calculateDocMRR(rs, q) == docMrrScan(rs, q, 1)

TOP_K == 10

\* results.slice(0, n)
slice(rs, n) == SubSeq(rs, 1, IF n < Len(rs) THEN n ELSE Len(rs))

\* 1000 / log2(p + 1), rounded, for the 1-based position p (the code's
\* 1 / Math.log2(i + 2) at rank i = p - 1, in thousandths); exactly 1000 at
\* p = 1 because Math.log2(2) is exactly 1
Discount(p) ==
    CASE p = 1 -> 1000 [] p = 2 -> 631 [] p = 3 -> 500 [] p = 4 -> 431
      [] p = 5 -> 387  [] p = 6 -> 356 [] p = 7 -> 333 [] p = 8 -> 315
      [] p = 9 -> 301  [] OTHER -> 289

\* relevances.reduce((sum, rel, i) => sum + rel / Math.log2(i + 2), 0)
RECURSIVE dcgReduce(_, _)
dcgReduce(relevances, n) ==
    IF n = 0 THEN 0
    ELSE dcgReduce(relevances, n - 1) + relevances[n] * Discount(n)

\* dcg / idcg in thousandths, idcg = 1 / Math.log2(2)
calculateNDCG(rs, q, n) ==
    LET topK == slice(rs, n)
        relevances == [p \in 1..Len(topK) |->
                          IF isRelevant(topK[p], q) THEN 1 ELSE 0]
        dcg == dcgReduce(relevances, Len(relevances))
        idcg == Discount(1)
    IN  [num |-> dcg, den |-> idcg]

\* the cutoff misses the last of the first n results
calculateRecallAtKShort(rs, q, n) ==
    LET topK == slice(rs, n - 1)
    IN  IF \E p \in 1..Len(topK) : isRelevant(topK[p], q) THEN 1 ELSE 0

calculateRecallAtK(rs, q, n) ==
    LET topK == slice(rs, n)
        found == \E p \in 1..Len(topK) : isRelevant(topK[p], q)
    IN  IF found THEN 1 ELSE 0

\* divides by the number of results looked at
calculatePrecisionAtKByLength(rs, q, n) ==
    LET topK == slice(rs, n)
        relevantCount == Len(SelectSeq(topK, LAMBDA r : isRelevant(r, q)))
    IN  [num |-> relevantCount, den |-> Len(topK)]

calculatePrecisionAtK(rs, q, n) ==
    LET topK == slice(rs, n)
        relevantCount == Len(SelectSeq(topK, LAMBDA r : isRelevant(r, q)))
    IN  [num |-> relevantCount, den |-> n]

Whole(n) == [num |-> n, den |-> 1]

\* the metrics object of evaluateQuery; every value is a fraction
queryMetrics(rs, q) ==
    [mrr |-> calculateMRR(rs, q),
     docMrr |-> calculateDocMRR(rs, q),
     ndcg |-> calculateNDCG(rs, q, TOP_K),
     recall_at_1 |-> Whole(calculateRecallAtK(rs, q, 1)),
     recall_at_3 |-> Whole(calculateRecallAtK(rs, q, 3)),
     recall_at_5 |-> Whole(calculateRecallAtK(rs, q, 5)),
     recall_at_10 |-> Whole(calculateRecallAtK(rs, q, 10)),
     precision_at_1 |-> calculatePrecisionAtK(rs, q, 1),
     precision_at_3 |-> calculatePrecisionAtK(rs, q, 3),
     precision_at_5 |-> calculatePrecisionAtK(rs, q, 5)]

MetricKeys ==
    {"mrr", "docMrr", "ndcg", "recall_at_1", "recall_at_3", "recall_at_5",
     "recall_at_10", "precision_at_1", "precision_at_3", "precision_at_5"}

NoMetrics == [key \in MetricKeys |-> Zero]

\* the cutoffs tried: up to one more than the longest results list
Cutoffs == 1..(MaxResults + 1)

InitScore ==
    /\ spc = "input"
    /\ results \in SeqsUpTo(Items, MaxResults)
    /\ qrel \in Items
    /\ cutoff \in Cutoffs
    /\ mrr = Zero
    /\ metrics = NoMetrics
    /\ recallAtK = 0
    /\ precisionAtK = Zero

IdleScore ==
    /\ spc = "idle"
    /\ results = <<>>
    /\ qrel = [doc_id |-> "A", section_id |-> 1]
    /\ cutoff = 1
    /\ mrr = Zero
    /\ metrics = NoMetrics
    /\ recallAtK = 0
    /\ precisionAtK = Zero

\* evaluateQuery, lines 150-161
Score ==
    /\ spc = "input"
    /\ mrr' = calculateMRR(results, qrel)
    /\ metrics' = queryMetrics(results, qrel)
    /\ spc' = "scored"
    /\ UNCHANGED <<results, qrel, cutoff, recallAtK, precisionAtK>>

\* calculateRecallAtK and calculatePrecisionAtK applied to the cutoff
ApplyAtK ==
    /\ spc = "scored"
    /\ recallAtK' = calculateRecallAtK(results, qrel, cutoff)
    /\ precisionAtK' = calculatePrecisionAtK(results, qrel, cutoff)
    /\ spc' = "applied"
    /\ UNCHANGED <<results, qrel, cutoff, mrr, metrics>>

\* ------------------------------------------- evaluation run (main)
\* a + b on fractions; a vanishing denominator is NaN and stays NaN
FracAdd(a, b) ==
    IF a.den = 0 \/ b.den = 0 THEN [num |-> 0, den |-> 0]
    ELSE IF a.den = b.den THEN [num |-> a.num + b.num, den |-> a.den]
    ELSE [num |-> a.num * b.den + b.num * a.den, den |-> a.den * b.den]

\* the mean taken over one element too many
divideByNext(total, count) ==
    [num |-> total.num, den |-> total.den * (count + 1)]

\* metrics[key] /= count; 0 / 0 is NaN, kept as a zero denominator
divideBy(total, count) == [num |-> total.num, den |-> total.den * count]

\* the summing loop of aggregateMetrics over the first n evaluations
RECURSIVE sumMetrics(_, _)
sumMetrics(evals, n) ==
    IF n = 0 THEN NoMetrics
    ELSE LET before == sumMetrics(evals, n - 1)
         IN  [key \in MetricKeys |->
                 FracAdd(before[key], evals[n].metrics[key])]

aggregateMetrics(evals) ==
    LET total == sumMetrics(evals, Len(evals))
        count == Len(evals)
    IN  [key \in MetricKeys |-> divideBy(total[key], count)]

\* a query without the key: queryData.type / queryData.source is undefined
Absent == "<absent>"

\* evaluation.queryType || 'unknown'
keyOf(v) == IF v = Absent THEN "unknown" ELSE v

\* names every object inherits from Object.prototype: byType[name] is
\* truthy on the empty object {} although {} has no such own property
InheritedKeys == {"constructor"}

QueryTypes == {"extractive", "abstractive", "constructor", Absent}
QuerySources == {"text", Absent}

\* if (!obj[key]) obj[key] = []
ensureList(obj, key) ==
    IF key \in DOMAIN obj \/ key \in InheritedKeys THEN obj
    ELSE (key :> <<>>) @@ obj

\* the first loop of groupMetrics from evaluation p on; push on a value
\* that is not an own list throws a TypeError
RECURSIVE groupLoop(_, _, _)
groupLoop(evals, p, acc) ==
    IF p > Len(evals) THEN acc
    ELSE LET type == keyOf(evals[p].queryType)
             source == keyOf(evals[p].querySource)
             types == ensureList(acc.byType, type)
             sources == ensureList(acc.bySource, source)
         IN  IF type \notin DOMAIN types
             THEN [err |-> "TypeError", byType |-> types,
                   bySource |-> sources]
             ELSE LET pushedType ==
                         [types EXCEPT ![type] = Append(@, evals[p])]
                  IN  IF source \notin DOMAIN sources
                      THEN [err |-> "TypeError", byType |-> pushedType,
                            bySource |-> sources]
                      ELSE groupLoop(evals, p + 1,
                              [err |-> "none",
                               byType |-> pushedType,
                               bySource |-> [sources EXCEPT ![source] =
                                                Append(@, evals[p])]])

\* { count: evals.length, ...aggregateMetrics(evals) } for every group
groupSummary(lists) ==
    [key \in DOMAIN lists |->
        [count |-> Len(lists[key]), metrics |-> aggregateMetrics(lists[key])]]

\* the qrel and the result lists the backend answers with in a run
EvalQrel == [doc_id |-> "A", section_id |-> 1]
EvalResults == { <<>>, <<EvalQrel>> }

\* JSON.stringify of a number: NaN is written as null
JsonNull == [num |-> 0, den |-> 0, null |-> TRUE]
stringifyNumber(f) ==
    IF f.den = 0 THEN JsonNull
    ELSE [num |-> f.num, den |-> f.den, null |-> FALSE]

stringifyMetrics(m) == [key \in MetricKeys |-> stringifyNumber(m[key])]

\* the query gets a zero score instead of being left out
scoredAsZero(evals, id) ==
    Append(evals, [queryId |-> id, queryType |-> Absent,
                   querySource |-> Absent, metrics |-> NoMetrics])

\* if (!qrel) { console.warn(...); continue; }
skipped(evals, id) == evals

InitEval ==
    /\ epc = "loop"
    /\ queryCount \in 0..MaxQueries
    /\ qi = 1
    /\ noQrel = {}
    /\ threw = {}
    /\ evaluations = <<>>
    /\ aggregateResults = NoMetrics
    /\ byType = <<>>
    /\ bySource = <<>>
    /\ groupedResults = [byType |-> <<>>, bySource |-> <<>>]
    /\ mainError = "none"
    /\ runFile = <<>>
    /\ runsIndex = <<>>

IdleEval ==
    /\ epc = "idle"
    /\ queryCount = 0
    /\ qi = 1
    /\ noQrel = {}
    /\ threw = {}
    /\ evaluations = <<>>
    /\ aggregateResults = NoMetrics
    /\ byType = <<>>
    /\ bySource = <<>>
    /\ groupedResults = [byType |-> <<>>, bySource |-> <<>>]
    /\ mainError = "none"
    /\ runFile = <<>>
    /\ runsIndex = <<>>

\* lines 274-282: the query has no qrel
SkipQuery ==
    /\ epc = "loop"
    /\ qi <= queryCount
    /\ evaluations' = skipped(evaluations, qi)
    /\ noQrel' = noQrel \cup {qi}
    /\ qi' = qi + 1
    /\ UNCHANGED <<epc, queryCount, threw, aggregateResults, byType,
                   bySource, groupedResults, mainError, runFile, runsIndex>>

\* lines 284-291: evaluateQuery returns and the evaluation is pushed
EvaluateQuery ==
    /\ epc = "loop"
    /\ qi <= queryCount
    /\ \E rs \in EvalResults, type \in QueryTypes, source \in QuerySources :
          evaluations' = Append(evaluations,
                                [queryId |-> qi, queryType |-> type,
                                 querySource |-> source,
                                 metrics |-> queryMetrics(rs, EvalQrel)])
    /\ qi' = qi + 1
    /\ UNCHANGED <<epc, queryCount, noQrel, threw, aggregateResults, byType,
                   bySource, groupedResults, mainError, runFile, runsIndex>>

\* lines 292-294: evaluateQuery throws, the error is logged
EvaluateThrows ==
    /\ epc = "loop"
    /\ qi <= queryCount
    /\ threw' = threw \cup {qi}
    /\ qi' = qi + 1
    /\ UNCHANGED <<epc, queryCount, noQrel, evaluations, aggregateResults,
                   byType, bySource, groupedResults, mainError, runFile,
                   runsIndex>>

\* line 301: aggregateMetrics(evaluations)
Aggregate ==
    /\ epc = "loop"
    /\ qi > queryCount
    /\ aggregateResults' = aggregateMetrics(evaluations)
    /\ epc' = "group"
    /\ UNCHANGED <<queryCount, qi, noQrel, threw, evaluations, byType,
                   bySource, groupedResults, mainError, runFile, runsIndex>>

\* line 302: groupMetrics(evaluations); a TypeError rejects main
Group ==
    /\ epc = "group"
    /\ LET g == groupLoop(evaluations, 1,
                          [err |-> "none", byType |-> <<>>,
                           bySource |-> <<>>])
       IN  /\ byType' = g.byType
           /\ bySource' = g.bySource
           /\ IF g.err = "none"
              THEN /\ groupedResults' =
                         [byType |-> groupSummary(g.byType),
                          bySource |-> groupSummary(g.bySource)]
                   /\ epc' = "save"
                   /\ UNCHANGED mainError
              ELSE /\ mainError' = g.err
                   /\ epc' = "failed"
                   /\ UNCHANGED groupedResults
    /\ UNCHANGED <<queryCount, qi, noQrel, threw, evaluations,
                   aggregateResults, runFile, runsIndex>>

\* lines 339-369: write the run file, then append to the runs index
Save ==
    /\ epc = "save"
    /\ LET runResult ==
              [totalQueries |-> Len(evaluations),
               aggregateMetrics |-> stringifyMetrics(aggregateResults),
               metricsByType |-> groupedResults.byType,
               metricsBySource |-> groupedResults.bySource,
               detailedResults |-> evaluations]
       IN  /\ runFile' = <<runResult>>
           /\ runsIndex' = Append(runsIndex,
                              [totalQueries |-> runResult.totalQueries,
                               aggregateMetrics |-> runResult.aggregateMetrics])
    /\ epc' = "done"
    /\ UNCHANGED <<queryCount, qi, noQrel, threw, evaluations,
                   aggregateResults, byType, bySource, groupedResults,
                   mainError>>

\* ------------------------------------------------ downloadCorpusFiles
\* the batch reaches one id into the next batch
batchOfOneMore(offset, size) ==
    { id \in 1..docCount : offset < id /\ id <= offset + size + 1 }

\* docIds.slice(i, i + concurrency), as the set of its ids
batchOf(offset, size) ==
    { id \in 1..docCount : offset < id /\ id <= offset + size }

InitDownload ==
    /\ dpc = "batch"
    /\ docCount \in 0..MaxDocs
    /\ concurrency \in 1..MaxConcurrency
    /\ di = 0
    /\ onDisk \in SUBSET (1..docCount)
    /\ inFlight = {}
    /\ completed = 0
    /\ failed = <<>>
    /\ downloadFailed = {}

IdleDownload ==
    /\ dpc = "idle"
    /\ docCount = 0
    /\ concurrency = 1
    /\ di = 0
    /\ onDisk = {}
    /\ inFlight = {}
    /\ completed = 0
    /\ failed = <<>>
    /\ downloadFailed = {}

\* lines 590-605: the tasks of one batch run up to their first await: a
\* file that exists counts as completed, the others start downloadFile
StartBatch ==
    /\ dpc = "batch"
    /\ di < docCount
    /\ LET batch == batchOf(di, concurrency)
       IN  /\ completed' = completed + Cardinality(batch \cap onDisk)
           /\ inFlight' = batch \ onDisk
    /\ dpc' = "await"
    /\ UNCHANGED <<docCount, concurrency, di, onDisk, failed, downloadFailed>>

\* line 606: a downloadFile resolves, the file is on disk
DownloadSucceeds ==
    /\ dpc = "await"
    /\ \E id \in inFlight :
          /\ inFlight' = inFlight \ {id}
          /\ onDisk' = onDisk \cup {id}
    /\ completed' = completed + 1
    /\ UNCHANGED <<dpc, docCount, concurrency, di, failed, downloadFailed>>

\* lines 607-610: a downloadFile rejects, the catch records the id
DownloadFails ==
    /\ dpc = "await"
    /\ \E id \in inFlight :
          /\ inFlight' = inFlight \ {id}
          /\ failed' = Append(failed, id)
          /\ downloadFailed' = downloadFailed \cup {id}
    /\ UNCHANGED <<dpc, docCount, concurrency, di, onDisk, completed>>

\* Promise.all of the batch resolves: i += concurrency
BatchDone ==
    /\ dpc = "await"
    /\ inFlight = {}
    /\ di' = di + concurrency
    /\ dpc' = "batch"
    /\ UNCHANGED <<docCount, concurrency, onDisk, inFlight, completed, failed,
                   downloadFailed>>

\* line 623: return { completed, failed }
ReturnDownload ==
    /\ dpc = "batch"
    /\ di >= docCount
    /\ dpc' = "returned"
    /\ UNCHANGED <<docCount, concurrency, di, onDisk, inFlight, completed,
                   failed, downloadFailed>>

\* ------------------------------------------------------------ fetchJson
FailureKinds == {"network", "http", "json"}

NoFetchError == [attempt |-> 0, kind |-> "none"]

\* the last attempt is never recognised
isLastAttemptLate(idx, n) == idx = n

\* if (i === retries - 1) throw error
isLastAttempt(idx, n) == idx = n - 1

InitFetch ==
    /\ fpc = "try"
    /\ retries \in 0..MaxRetries
    /\ fi = 0
    /\ attempts = 0
    /\ fetching = 0
    /\ outcomes = <<>>
    /\ fetchResult = 0
    /\ fetchError = NoFetchError

IdleFetch ==
    /\ fpc = "idle"
    /\ retries = 0
    /\ fi = 0
    /\ attempts = 0
    /\ fetching = 0
    /\ outcomes = <<>>
    /\ fetchResult = 0
    /\ fetchError = NoFetchError

\* line 544: fetch(url) is called
StartFetch ==
    /\ fpc = "try"
    /\ fi < retries
    /\ attempts' = attempts + 1
    /\ fetching' = fetching + 1
    /\ fpc' = "fetching"
    /\ UNCHANGED <<retries, fi, outcomes, fetchResult, fetchError>>

\* lines 544-548: the response is ok and its JSON parses: return it
FetchSucceeds ==
    /\ fpc = "fetching"
    /\ fetching' = fetching - 1
    /\ outcomes' = Append(outcomes, "ok")
    /\ fetchResult' = attempts
    /\ fpc' = "returned"
    /\ UNCHANGED <<retries, fi, attempts, fetchError>>

\* lines 549-553: fetch rejects, the status is not ok, or the JSON does not
\* parse; the last attempt rethrows, the others wait for the timer
FetchFails ==
    /\ fpc = "fetching"
    /\ fetching' = fetching - 1
    /\ \E kind \in FailureKinds :
          /\ outcomes' = Append(outcomes, kind)
          /\ IF isLastAttempt(fi, retries)
             THEN /\ fetchError' = [attempt |-> attempts, kind |-> kind]
                  /\ fpc' = "thrown"
             ELSE /\ fpc' = "waiting"
                  /\ UNCHANGED fetchError
    /\ UNCHANGED <<retries, fi, attempts, fetchResult>>

\* the setTimeout promise resolves: next iteration
RetryTimer ==
    /\ fpc = "waiting"
    /\ fi' = fi + 1
    /\ fpc' = "try"
    /\ UNCHANGED <<retries, attempts, fetching, outcomes, fetchResult,
                   fetchError>>

\* the for loop ends without a return: the function returns undefined
FetchLoopEnds ==
    /\ fpc = "try"
    /\ fi >= retries
    /\ fetchResult' = 0
    /\ fpc' = "returned"
    /\ UNCHANGED <<retries, fi, attempts, fetching, outcomes, fetchError>>

\* ------------------------------------------------- the runs directory
\* evaluate.js (one run at a time) and server.js are two processes that
\* share RUNS_DIR; every handler of the server and each of the two writes of
\* main is synchronous, so each is one step
IndexStem == "index"    \* index.json

\* the values of --name= and of the :name route parameter
RunNames == {"a", "b", "index"}

\* JSON.parse of a run file: the runResult object (the metrics are left
\* out, the run is told by its timestamp)
runResultOf(name, timestamp) ==
    [isArray |-> FALSE, runName |-> name, timestamp |-> timestamp,
     entries |-> <<>>]

\* JSON.parse of a file that holds an array of index entries
arrayOf(entries) ==
    [isArray |-> TRUE, runName |-> "", timestamp |-> 0, entries |-> entries]

NoFiles == [stem \in {} |-> arrayOf(<<>>)]

existsSync(dir, stem) == stem \in DOMAIN dir

writeFileSync(dir, stem, content) ==
    [f \in DOMAIN dir \cup {stem} |-> IF f = stem THEN content ELSE dir[f]]

unlinkSync(dir, stem) == [f \in DOMAIN dir \ {stem} |-> dir[f]]

\* runs.filter(r => r.name !== runName)
filter(runs, name) == SelectSeq(runs, LAMBDA r : r.name # name)

\* runs.sort((a, b) => new Date(b.timestamp) - new Date(a.timestamp)):
\* newest first, entries of equal timestamp keep their order
RECURSIVE sortByTimestamp(_)
sortByTimestamp(runs) ==
    IF runs = <<>> THEN <<>>
    ELSE LET first == Head(runs)
             rest == sortByTimestamp(Tail(runs))
         IN  SelectSeq(rest, LAMBDA r : r.timestamp > first.timestamp)
                \o <<first>>
                \o SelectSeq(rest, LAMBDA r : r.timestamp <= first.timestamp)

NoResponse == [status |-> 0, runs |-> <<>>]

respond(status, runs) == [status |-> status, runs |-> runs]

InitStore ==
    /\ rpc = "none"
    /\ RUN_NAME = ""
    /\ clock = 0
    /\ runsDir = NoFiles
    /\ saveError = "none"
    /\ response = NoResponse

IdleStore ==
    /\ rpc = "idle"
    /\ RUN_NAME = ""
    /\ clock = 0
    /\ runsDir = NoFiles
    /\ saveError = "none"
    /\ response = NoResponse

\* lines 339-352: an evaluation run reaches its save step and writes
\* <RUN_NAME>.json
WriteRunFile ==
    /\ rpc = "none"
    /\ clock < MaxRuns
    /\ \E name \in RunNames :
          /\ RUN_NAME' = name
          /\ runsDir' = writeFileSync(runsDir, name,
                                      runResultOf(name, clock + 1))
    /\ clock' = clock + 1
    /\ rpc' = "written"
    /\ saveError' = "none"
    /\ UNCHANGED response

\* lines 355-370: read index.json if it exists, push the entry, write it
\* back; push on a parsed object that is no array is a TypeError
UpdateIndex ==
    /\ rpc = "written"
    /\ IF existsSync(runsDir, IndexStem) /\ ~runsDir[IndexStem].isArray
       THEN /\ saveError' = "TypeError"
            /\ UNCHANGED runsDir
       ELSE LET runsIndexRead ==
                   IF existsSync(runsDir, IndexStem)
                   THEN runsDir[IndexStem].entries
                   ELSE <<>>
                pushed == Append(runsIndexRead,
                                 [name |-> RUN_NAME, timestamp |-> clock])
            IN  /\ runsDir' = writeFileSync(runsDir, IndexStem,
                                            arrayOf(pushed))
                /\ UNCHANGED saveError
    /\ rpc' = "none"
    /\ UNCHANGED <<RUN_NAME, clock, response>>

\* app.get('/api/runs'), lines 408-419
GetRuns ==
    /\ rpc \in {"none", "written"}
    /\ response' =
          IF ~existsSync(runsDir, IndexStem) THEN respond(200, <<>>)
          ELSE IF ~runsDir[IndexStem].isArray THEN respond(500, <<>>)
          ELSE respond(200, sortByTimestamp(runsDir[IndexStem].entries))
    /\ UNCHANGED <<rpc, RUN_NAME, clock, runsDir, saveError>>

\* app.delete('/api/runs/:name'), lines 475-495
DeleteRun ==
    /\ rpc \in {"none", "written"}
    /\ \E runName \in RunNames :
          IF ~existsSync(runsDir, runName)
          THEN /\ response' = respond(404, <<>>)
               /\ UNCHANGED runsDir
          ELSE LET unlinked == unlinkSync(runsDir, runName)
               IN  IF ~existsSync(unlinked, IndexStem)
                   THEN /\ runsDir' = unlinked
                        /\ response' = respond(200, <<>>)
                   ELSE IF ~unlinked[IndexStem].isArray
                   THEN /\ runsDir' = unlinked
                        /\ response' = respond(500, <<>>)
                   ELSE /\ runsDir' =
                              writeFileSync(unlinked, IndexStem,
                                 arrayOf(filter(unlinked[IndexStem].entries,
                                                runName)))
                        /\ response' = respond(200, <<>>)
    /\ UNCHANGED <<rpc, RUN_NAME, clock, saveError>>

\* ------------------------------------------------------ main of ingest.js
BATCH_SIZE == 50

\* corpus documents: the number of chunks chunkSection makes of the abstract
\* (0: no abstract) and of each section (0: a section of blank text)
Docs ==
    { [abstract |-> 0, sections |-> <<>>],
      [abstract |-> 1, sections |-> <<19>>],
      [abstract |-> 0, sections |-> <<25, 0, 25>>] }

\* the abstract is section -1, the section at index idx is section idx;
\* sections of blank text are left out
extractSections(doc) ==
    LET abstract == IF doc.abstract > 0
                    THEN << [sectionId |-> 0 - 1, chunks |-> doc.abstract] >>
                    ELSE <<>>
        all == [p \in 1..Len(doc.sections) |->
                   [sectionId |-> p - 1, chunks |-> doc.sections[p]]]
    IN  abstract \o SelectSeq(all, LAMBDA section : section.chunks > 0)

\* the inner loop of processDocument: one point per chunk, id: pointId++
chunkPoints(docId, section, firstId) ==
    [c \in 1..section.chunks |->
        [id |-> firstId + c - 1, doc_id |-> docId,
         section_id |-> section.sectionId, chunk_id |-> c - 1]]

\* the outer loop of processDocument from section p on
RECURSIVE sectionLoop(_, _, _, _)
sectionLoop(docId, sections, p, acc) ==
    IF p > Len(sections) THEN acc
    ELSE sectionLoop(docId, sections, p + 1,
             [points |-> acc.points
                           \o chunkPoints(docId, sections[p], acc.pointId),
              pointId |-> acc.pointId + sections[p].chunks])

processDocument(docId, doc, startingPointId) ==
    LET end == sectionLoop(docId, extractSections(doc), 1,
                           [points |-> <<>>, pointId |-> startingPointId])
    IN  [points |-> end.points, nextPointId |-> end.pointId]

\* upsertBatch: the points arrays given to qdrant.upsert so far, after
\* upsertBatch(points)
upsertBatch(upserts, points) ==
    IF Len(points) = 0 THEN upserts ELSE Append(upserts, points)

InitIngest ==
    /\ ipc = "loop"
    /\ corpus \in 0..MaxIngestDocs
    /\ docIdx = 1
    /\ pointId = 0
    /\ pendingPoints = <<>>
    /\ processedDocs = 0
    /\ failedDocs = 0
    /\ totalPoints = 0
    /\ upserted = <<>>
    /\ ingestError = "none"

IdleIngest ==
    /\ ipc = "idle"
    /\ corpus = 0
    /\ docIdx = 1
    /\ pointId = 0
    /\ pendingPoints = <<>>
    /\ processedDocs = 0
    /\ failedDocs = 0
    /\ totalPoints = 0
    /\ upserted = <<>>
    /\ ingestError = "none"

\* lines 988-993: the corpus file does not exist
MissingFile ==
    /\ ipc = "loop"
    /\ docIdx <= corpus
    /\ failedDocs' = failedDocs + 1
    /\ docIdx' = docIdx + 1
    /\ UNCHANGED <<ipc, corpus, pointId, pendingPoints, processedDocs,
                   totalPoints, upserted, ingestError>>

\* line 988: JSON.parse in loadDocument throws outside the try block
LoadThrows ==
    /\ ipc = "loop"
    /\ docIdx <= corpus
    /\ ipc' = "failed"
    /\ ingestError' = "SyntaxError"
    /\ UNCHANGED <<corpus, docIdx, pointId, pendingPoints, processedDocs,
                   failedDocs, totalPoints, upserted>>

\* lines 996, 1012-1015: processDocument rejects (embedText failed)
ProcessThrows ==
    /\ ipc = "loop"
    /\ docIdx <= corpus
    /\ failedDocs' = failedDocs + 1
    /\ docIdx' = docIdx + 1
    /\ UNCHANGED <<ipc, corpus, pointId, pendingPoints, processedDocs,
                   totalPoints, upserted, ingestError>>

\* lines 996-1003: processDocument returns; a full batch is upserted
ProcessReturns ==
    /\ ipc = "loop"
    /\ docIdx <= corpus
    /\ \E doc \in Docs :
          LET returned == processDocument(docIdx, doc, pointId)
              pushed == pendingPoints \o returned.points
          IN  /\ pointId' = returned.nextPointId
              /\ pendingPoints' = pushed
              /\ IF Len(pushed) >= BATCH_SIZE
                 THEN /\ upserted' = upsertBatch(upserted, pushed)
                      /\ ipc' = "upsert"
                      /\ UNCHANGED docIdx
                 ELSE /\ docIdx' = docIdx + 1
                      /\ UNCHANGED <<ipc, upserted>>
    /\ processedDocs' = processedDocs + 1
    /\ UNCHANGED <<corpus, failedDocs, totalPoints, ingestError>>

\* lines 1003-1005: the batch upsert resolves
UpsertSucceeds ==
    /\ ipc = "upsert"
    /\ totalPoints' = totalPoints + Len(pendingPoints)
    /\ pendingPoints' = <<>>
    /\ docIdx' = docIdx + 1
    /\ ipc' = "loop"
    /\ UNCHANGED <<corpus, pointId, processedDocs, failedDocs, upserted,
                   ingestError>>

\* lines 1003, 1012-1015: the batch upsert rejects inside the try block
UpsertFails ==
    /\ ipc = "upsert"
    /\ failedDocs' = failedDocs + 1
    /\ docIdx' = docIdx + 1
    /\ ipc' = "loop"
    /\ UNCHANGED <<corpus, pointId, pendingPoints, processedDocs,
                   totalPoints, upserted, ingestError>>

\* lines 1018-1020: the loop is over, the rest is upserted
FinalBatch ==
    /\ ipc = "loop"
    /\ docIdx > corpus
    /\ IF Len(pendingPoints) > 0
       THEN /\ upserted' = upsertBatch(upserted, pendingPoints)
            /\ ipc' = "finalUpsert"
       ELSE /\ ipc' = "done"
            /\ UNCHANGED upserted
    /\ UNCHANGED <<corpus, docIdx, pointId, pendingPoints, processedDocs,
                   failedDocs, totalPoints, ingestError>>

\* lines 1020-1021: the final upsert resolves
FinalSucceeds ==
    /\ ipc = "finalUpsert"
    /\ totalPoints' = totalPoints + Len(pendingPoints)
    /\ ipc' = "done"
    /\ UNCHANGED <<corpus, docIdx, pointId, pendingPoints, processedDocs,
                   failedDocs, upserted, ingestError>>

\* lines 1020, 1057: the final upsert rejects and so does main
FinalFails ==
    /\ ipc = "finalUpsert"
    /\ ipc' = "failed"
    /\ ingestError' = "upsert"
    /\ UNCHANGED <<corpus, docIdx, pointId, pendingPoints, processedDocs,
                   failedDocs, totalPoints, upserted>>

\* ------------------------------------------------------ specifications
NextChunk ==
    \/ (Call /\ UNCHANGED <<scoreVars, evalVars, downloadVars, fetchVars,
                        storeVars, ingestVars>>)
    \/ (Fulfil /\ UNCHANGED <<scoreVars, evalVars, downloadVars, fetchVars,
                        storeVars, ingestVars>>)
    \/ (Reject /\ UNCHANGED <<scoreVars, evalVars, downloadVars, fetchVars,
                        storeVars, ingestVars>>)
    \/ (Resume /\ UNCHANGED <<scoreVars, evalVars, downloadVars, fetchVars,
                        storeVars, ingestVars>>)
    \/ (LoopStep /\ UNCHANGED <<scoreVars, evalVars, downloadVars, fetchVars,
                        storeVars, ingestVars>>)
    \/ (Return /\ UNCHANGED <<scoreVars, evalVars, downloadVars, fetchVars,
                        storeVars, ingestVars>>)

InitChunkSpec ==
    InitChunk /\ IdleScore /\ IdleEval /\ IdleDownload /\ IdleFetch
       /\ IdleStore /\ IdleIngest

SpecChunk == InitChunkSpec /\ [][NextChunk]_vars

NextScore ==
    \/ (Score /\ UNCHANGED <<chunkVars, evalVars, downloadVars, fetchVars,
                        storeVars, ingestVars>>)
    \/ (ApplyAtK /\ UNCHANGED <<chunkVars, evalVars, downloadVars, fetchVars,
                        storeVars, ingestVars>>)

InitScoreSpec ==
    InitScore /\ IdleChunk /\ IdleEval /\ IdleDownload /\ IdleFetch
       /\ IdleStore /\ IdleIngest

SpecScore == InitScoreSpec /\ [][NextScore]_vars

NextEval ==
    \/ (SkipQuery
           /\ UNCHANGED <<chunkVars, scoreVars, downloadVars, fetchVars,
                        storeVars, ingestVars>>)
    \/ (EvaluateQuery
           /\ UNCHANGED <<chunkVars, scoreVars, downloadVars, fetchVars,
                        storeVars, ingestVars>>)
    \/ (EvaluateThrows
           /\ UNCHANGED <<chunkVars, scoreVars, downloadVars, fetchVars,
                        storeVars, ingestVars>>)
    \/ (Aggregate
           /\ UNCHANGED <<chunkVars, scoreVars, downloadVars, fetchVars,
                        storeVars, ingestVars>>)
    \/ (Group /\ UNCHANGED <<chunkVars, scoreVars, downloadVars, fetchVars,
                        storeVars, ingestVars>>)
    \/ (Save /\ UNCHANGED <<chunkVars, scoreVars, downloadVars, fetchVars,
                        storeVars, ingestVars>>)

InitEvalSpec ==
    InitEval /\ IdleChunk /\ IdleScore /\ IdleDownload /\ IdleFetch
       /\ IdleStore /\ IdleIngest

SpecEval == InitEvalSpec /\ [][NextEval]_vars

NextDownload ==
    \/ (StartBatch /\ UNCHANGED <<chunkVars, scoreVars, evalVars, fetchVars,
                        storeVars, ingestVars>>)
    \/ (DownloadSucceeds
           /\ UNCHANGED <<chunkVars, scoreVars, evalVars, fetchVars,
                        storeVars, ingestVars>>)
    \/ (DownloadFails
           /\ UNCHANGED <<chunkVars, scoreVars, evalVars, fetchVars,
                        storeVars, ingestVars>>)
    \/ (BatchDone /\ UNCHANGED <<chunkVars, scoreVars, evalVars, fetchVars,
                        storeVars, ingestVars>>)
    \/ (ReturnDownload
           /\ UNCHANGED <<chunkVars, scoreVars, evalVars, fetchVars,
                        storeVars, ingestVars>>)

InitDownloadSpec ==
    InitDownload /\ IdleChunk /\ IdleScore /\ IdleEval /\ IdleFetch
       /\ IdleStore /\ IdleIngest

\* every pending download settles and the event loop runs every
\* continuation that is ready
SpecDownload ==
    InitDownloadSpec /\ [][NextDownload]_vars /\ WF_vars(NextDownload)

NextFetch ==
    \/ (StartFetch
           /\ UNCHANGED <<chunkVars, scoreVars, evalVars, downloadVars,
                        storeVars, ingestVars>>)
    \/ (FetchSucceeds
           /\ UNCHANGED <<chunkVars, scoreVars, evalVars, downloadVars,
                        storeVars, ingestVars>>)
    \/ (FetchFails
           /\ UNCHANGED <<chunkVars, scoreVars, evalVars, downloadVars,
                        storeVars, ingestVars>>)
    \/ (RetryTimer
           /\ UNCHANGED <<chunkVars, scoreVars, evalVars, downloadVars,
                        storeVars, ingestVars>>)
    \/ (FetchLoopEnds
           /\ UNCHANGED <<chunkVars, scoreVars, evalVars, downloadVars,
                        storeVars, ingestVars>>)

InitFetchSpec ==
    InitFetch /\ IdleChunk /\ IdleScore /\ IdleEval /\ IdleDownload
       /\ IdleStore /\ IdleIngest

SpecFetch == InitFetchSpec /\ [][NextFetch]_vars

NextStore ==
    \/ (WriteRunFile
           /\ UNCHANGED <<chunkVars, scoreVars, evalVars, downloadVars,
                          fetchVars, ingestVars>>)
    \/ (UpdateIndex
           /\ UNCHANGED <<chunkVars, scoreVars, evalVars, downloadVars,
                          fetchVars, ingestVars>>)
    \/ (GetRuns
           /\ UNCHANGED <<chunkVars, scoreVars, evalVars, downloadVars,
                          fetchVars, ingestVars>>)
    \/ (DeleteRun
           /\ UNCHANGED <<chunkVars, scoreVars, evalVars, downloadVars,
                          fetchVars, ingestVars>>)

InitStoreSpec ==
    InitStore /\ IdleChunk /\ IdleScore /\ IdleEval /\ IdleDownload
       /\ IdleFetch /\ IdleIngest

SpecStore == InitStoreSpec /\ [][NextStore]_vars

NextIngest ==
    \/ (MissingFile
           /\ UNCHANGED <<chunkVars, scoreVars, evalVars, downloadVars,
                          fetchVars, storeVars>>)
    \/ (LoadThrows
           /\ UNCHANGED <<chunkVars, scoreVars, evalVars, downloadVars,
                          fetchVars, storeVars>>)
    \/ (ProcessThrows
           /\ UNCHANGED <<chunkVars, scoreVars, evalVars, downloadVars,
                          fetchVars, storeVars>>)
    \/ (ProcessReturns
           /\ UNCHANGED <<chunkVars, scoreVars, evalVars, downloadVars,
                          fetchVars, storeVars>>)
    \/ (UpsertSucceeds
           /\ UNCHANGED <<chunkVars, scoreVars, evalVars, downloadVars,
                          fetchVars, storeVars>>)
    \/ (UpsertFails
           /\ UNCHANGED <<chunkVars, scoreVars, evalVars, downloadVars,
                          fetchVars, storeVars>>)
    \/ (FinalBatch
           /\ UNCHANGED <<chunkVars, scoreVars, evalVars, downloadVars,
                          fetchVars, storeVars>>)
    \/ (FinalSucceeds
           /\ UNCHANGED <<chunkVars, scoreVars, evalVars, downloadVars,
                          fetchVars, storeVars>>)
    \/ (FinalFails
           /\ UNCHANGED <<chunkVars, scoreVars, evalVars, downloadVars,
                          fetchVars, storeVars>>)

InitIngestSpec ==
    InitIngest /\ IdleChunk /\ IdleScore /\ IdleEval /\ IdleDownload
       /\ IdleFetch /\ IdleStore

SpecIngest == InitIngestSpec /\ [][NextIngest]_vars

\* ------------------------------------------------------------- claims
\* the sentences of the chunks, each chunk split at its blanks
SentencesOf(chs) ==
    Flatten([k \in 1..Len(chs) |-> splitIntoSentences(chs[k])])

\* token count of a chunk: the sum over its sentences
ChunkTokens(c) ==
    LET ss == splitIntoSentences(c)
    IN  SumTo([k \in 1..Len(ss) |-> encodeLength(ss[k])], Len(ss))

\* the whole loop and the final flush, run on the embeddings emb
RECURSIVE runLoop(_, _)
runLoop(emb, st) ==
    IF st.i > Len(sentences) THEN finalChunks(st)
    ELSE runLoop(emb, loopBody(emb, st))

Rejected == { k \in DOMAIN promises : ~promises[k].ok }
Fulfilled == { k \in DOMAIN promises : promises[k].ok }

ZeroNorm(v) == \A k \in 1..Len(v) : v[k] = 0

\* C1: the returned chunks partition the sentence sequence: read chunk by
\* chunk the sentences are the segmenter's sequence, in order, none dropped
\* and none duplicated; during the loop the flushed chunks followed by the
\* buffer are the sentences handled so far.
C1_Partition ==
    /\ pc = "loop" =>
         SentencesOf(chunks) \o currentSentences = SubSeq(sentences, 1, i - 1)
    /\ pc = "returned" => SentencesOf(result[1]) = sentences

C1_Witness ==
    /\ pc = "returned"
    /\ Len(sentences) = MaxSent
    /\ Len(result[1]) = 2

\* C2: with minTokens <= maxTokens every returned chunk has at most
\* maxTokens tokens, unless it is one sentence that alone exceeds maxTokens.
C2_HardCap ==
    (pc = "returned" /\ minTokens <= maxTokens) =>
        \A c \in 1..Len(result[1]) :
            \/ ChunkTokens(result[1][c]) <= maxTokens
            \/ Len(splitIntoSentences(result[1][c])) = 1

\* C3: no chunk boundary is introduced while the chunk in progress has fewer
\* than minTokens tokens, so every returned chunk but the last has at least
\* minTokens tokens.
C3_NoSplitBelowMin ==
    /\ [][(pc = "loop" /\ pc' = "loop" /\ chunks' # chunks)
             => currentTokens >= minTokens]_vars
    /\ [](pc = "returned" =>
             \A c \in 1..(Len(result[1]) - 1) :
                 ChunkTokens(result[1][c]) >= minTokens)

\* a returned chunk that kept two dissimilar sentences together, next to a
\* real boundary
C3_Witness ==
    /\ pc = "returned"
    /\ Len(result[1]) >= 2
    /\ minTokens > 1
    /\ LessThan(cosineSimilarity(sentenceEmbeddings[1], sentenceEmbeddings[2]),
                ThresholdNum, ThresholdDen)
    /\ Len(splitIntoSentences(result[1][1])) >= 2

\* C4: with minTokens > maxTokens the call fails with a configuration error
\* and the embedding function has been invoked for no sentence.
C4_ConfigurationError ==
    minTokens > maxTokens =>
        /\ \A k \in DOMAIN calls : calls[k] = 0
        /\ pc \notin {"loop", "returned"}
        /\ pc = "thrown" => error.kind = "ConfigurationError"

\* C5: the embedding function is invoked exactly once per sentence, never
\* again; when an invocation fails the call fails with the error of a failed
\* invocation and returns nothing.
C5_EmbedOnceAndPropagate ==
    /\ pc # "call" => calls = [k \in 1..Len(sentences) |-> 1]
    /\ Rejected # {} =>
          /\ pc = "thrown"
          /\ error \in { promises[k].err : k \in Rejected }
          /\ result = <<>>
          /\ chunks = <<>>
    /\ pc = "thrown" => Rejected # {}

C5_Witness ==
    /\ pc = "thrown"
    /\ Cardinality(Rejected) >= 2
    /\ Fulfilled # {}
    /\ error.from = 2

\* C6: when two sentences get embeddings of different lengths the call
\* does not return chunks: it fails with a DimensionMismatch error.
C6_DimensionMismatch ==
    (/\ pc \in {"loop", "returned", "thrown"}
     /\ Rejected = {}
     /\ \E j, k \in Fulfilled :
            Len(promises[j].val) # Len(promises[k].val)) =>
        /\ pc = "thrown"
        /\ error.kind = "DimensionMismatch"
        /\ result = <<>>

\* C7: whatever the completion order, the k-th collected embedding is the
\* embedding of the k-th sentence, and the returned chunks are those of the
\* loop run on the embeddings in sentence order.
C7_OrderPreserving ==
    /\ \A k \in DOMAIN sentenceEmbeddings :
          /\ k \in Fulfilled
          /\ sentenceEmbeddings[k] = promises[k].val
    /\ pc = "returned" =>
          result[1] = runLoop([k \in 1..Len(sentences) |-> promises[k].val],
                              [i |-> 1, chunks |-> <<>>,
                               currentSentences |-> <<>>,
                               currentTokens |-> 0])

\* a later sentence's embedding is collected while an earlier one is pending
C7_Witness ==
    /\ pc = "await"
    /\ 1 \in Pending
    /\ 2 \in DOMAIN sentenceEmbeddings
    /\ sentenceEmbeddings[2] = promises[2].val

\* C8: when segmentation yields zero sentences the call returns exactly one
\* chunk, the whole input text.
C8_ZeroSentences ==
    (pc = "returned" /\ sentences = <<>>) => result[1] = <<text>>

\* C9: when either of two adjacent embeddings has zero norm the pair is a
\* split opportunity: the chunker splits between them whenever the chunk in
\* progress has at least minTokens tokens.
C9_ZeroNormSplits ==
    [][(/\ pc = "loop"
        /\ pc' = "loop"
        /\ i >= 2
        /\ Len(sentenceEmbeddings[i - 1]) = Len(sentenceEmbeddings[i])
        /\ ZeroNorm(sentenceEmbeddings[i - 1]) \/ ZeroNorm(sentenceEmbeddings[i])
        /\ currentTokens >= minTokens)
          => chunks' = Append(chunks, join(currentSentences))]_vars

\* C10: calculateMRR is 1/(i+1) for the 0-based position i of the first
\* result whose doc_id and section_id both equal the qrel's, and 0 when no
\* result matches: 1 for a match at rank 0, 0 for an empty list.
C10_MRR ==
    spc \in {"scored", "applied"} =>
        LET hits == { k \in 1..Len(results) :
                         /\ results[k].doc_id = qrel.doc_id
                         /\ results[k].section_id = qrel.section_id }
        IN  /\ hits = {} => mrr = [num |-> 0, den |-> 1]
            /\ hits # {} =>
                  /\ mrr.num = 1
                  /\ mrr.den \in hits
                  /\ \A h \in hits : mrr.den <= h

\* the first exact match is at rank 1, after a result of the same document
C10_Witness ==
    /\ spc = "scored"
    /\ Len(results) = 3
    /\ results[1].doc_id = qrel.doc_id
    /\ mrr = [num |-> 1, den |-> 2]
    /\ results[3] = qrel

\* the 1-based positions of the exact matches among the first n results
ExactHits(n) ==
    { p \in 1..Len(results) :
         /\ p <= n
         /\ results[p].doc_id = qrel.doc_id
         /\ results[p].section_id = qrel.section_id }

\* C11: calculateNDCG is exactly 1.0 whenever the result at rank 0 is an
\* exact match and exactly 0.0 when no result is an exact match.
C11_NDCGBoundary ==
    spc \in {"scored", "applied"} =>
        /\ 1 \in ExactHits(TOP_K) => metrics.ndcg.num = metrics.ndcg.den
        /\ ExactHits(TOP_K) = {} => metrics.ndcg.num = 0

\* C12: calculatePrecisionAtK is the number of exact matches among the first
\* k results divided by the nominal k, also for a list shorter than k (0 when
\* such a list has no match).
C12_PrecisionAtK ==
    /\ spc = "applied" =>
          precisionAtK = [num |-> Cardinality(ExactHits(cutoff)),
                          den |-> cutoff]
    /\ spc \in {"scored", "applied"} =>
          /\ metrics.precision_at_1 =
                [num |-> Cardinality(ExactHits(1)), den |-> 1]
          /\ metrics.precision_at_3 =
                [num |-> Cardinality(ExactHits(3)), den |-> 3]
          /\ metrics.precision_at_5 =
                [num |-> Cardinality(ExactHits(5)), den |-> 5]

\* a list shorter than the cutoff that holds a match
C12_Witness ==
    /\ spc = "applied"
    /\ Len(results) = 2
    /\ cutoff = MaxResults + 1
    /\ precisionAtK.num = 1

\* C13: calculateRecallAtK is 1 if an exact match is among the first k
\* results and 0 otherwise, for each k on its own; so recall@k does not
\* decrease with k, and it is 1 exactly when the first exact match has
\* 0-based rank below k.
C13_RecallAtK ==
    /\ spc = "applied" =>
          /\ recallAtK = (IF ExactHits(cutoff) # {} THEN 1 ELSE 0)
          /\ recallAtK = 1 <=> (mrr.num = 1 /\ mrr.den - 1 < cutoff)
    /\ spc \in {"scored", "applied"} =>
          /\ \A k1, k2 \in Cutoffs :
                k1 <= k2 => calculateRecallAtK(results, qrel, k1)
                               <= calculateRecallAtK(results, qrel, k2)
          /\ metrics.recall_at_1.num <= metrics.recall_at_3.num
          /\ metrics.recall_at_3.num <= metrics.recall_at_5.num
          /\ metrics.recall_at_5.num <= metrics.recall_at_10.num
          /\ metrics.recall_at_3.num = (IF ExactHits(3) # {} THEN 1 ELSE 0)

\* the first exact match lies just inside the cutoff
C13_Witness ==
    /\ spc = "applied"
    /\ cutoff = 2
    /\ Len(results) = 3
    /\ mrr = [num |-> 1, den |-> 2]
    /\ recallAtK = 1
    /\ metrics.recall_at_1.num = 0

\* token sum of a sequence of sentences
TokenSum(ss) == SumTo([p \in 1..Len(ss) |-> encodeLength(ss[p])], Len(ss))

IdsOf(evals) == { evals[p].queryId : p \in 1..Len(evals) }

RECURSIVE CountSum(_, _)
CountSum(groups, keys) ==
    IF keys = {} THEN 0
    ELSE LET key == CHOOSE x \in keys : TRUE
         IN  groups[key].count + CountSum(groups, keys \ {key})

\* C14: a query without qrel is never scored: no entry in evaluations, not
\* counted in totalQueries, in no aggregate mean and in no group count; the
\* run goes on with the next query.
C14_MissingQrelSkipped ==
    /\ [](epc # "idle" =>
            /\ IdsOf(evaluations) \cap noQrel = {}
            /\ Len(evaluations) = Cardinality((1..(qi - 1)) \ (noQrel \cup threw))
            /\ epc \in {"save", "done"} =>
                  /\ CountSum(groupedResults.byType,
                              DOMAIN groupedResults.byType)
                        = Cardinality((1..queryCount) \ (noQrel \cup threw))
                  /\ CountSum(groupedResults.bySource,
                              DOMAIN groupedResults.bySource)
                        = Cardinality((1..queryCount) \ (noQrel \cup threw))
            /\ epc = "done" =>
                  runFile[1].totalQueries
                     = Cardinality((1..queryCount) \ (noQrel \cup threw)))
    /\ [][noQrel' # noQrel =>
            /\ evaluations' = evaluations
            /\ qi' = qi + 1
            /\ epc' = "loop"]_vars

\* a finished run that skipped its second query and scored the others
C14_Witness ==
    /\ epc = "done"
    /\ queryCount = MaxQueries
    /\ noQrel = {2}
    /\ threw = {}
    /\ runFile[1].totalQueries = MaxQueries - 1

\* the value of a metric of an evaluation, in 3000ths (every denominator
\* the scorer produces divides 3000)
Units(f) == (f.num * 3000) \div f.den

RECURSIVE UnitSum(_, _, _)
UnitSum(evals, key, n) ==
    IF n = 0 THEN 0
    ELSE Units(evals[n].metrics[key]) + UnitSum(evals, key, n - 1)

\* C15: for a non-empty list aggregateMetrics returns, for every metric, the
\* arithmetic mean over all elements (all mrr 1 give 1; mrr 1 and 0 give
\* 0.5), and it leaves the evaluations unchanged.
C15_AggregateMean ==
    /\ []((epc \in {"group", "save", "done", "failed"} /\ evaluations # <<>>) =>
            \A key \in MetricKeys :
                /\ aggregateResults[key].den > 0
                /\ aggregateResults[key].num * 3000 * Len(evaluations)
                      = aggregateResults[key].den
                           * UnitSum(evaluations, key, Len(evaluations)))
    /\ [][epc # "loop" => evaluations' = evaluations]_vars

\* two evaluations with mrr 1 and mrr 0: the mean is one half
C15_Witness ==
    /\ epc = "group"
    /\ Len(evaluations) = 2
    /\ evaluations[1].metrics.mrr.num = 1
    /\ evaluations[2].metrics.mrr.num = 0
    /\ aggregateResults.mrr.num * 2 = aggregateResults.mrr.den

\* C16: aggregateMetrics on an empty list fails with an EmptyInput error, so
\* a run that scored no query never writes NaN-like aggregate values into
\* the run report or the runs index.
C16_EmptyInput ==
    (epc \in {"group", "save", "done", "failed"} /\ evaluations = <<>>) =>
        /\ epc = "failed"
        /\ mainError = "EmptyInput"
        /\ runFile = <<>>
        /\ runsIndex = <<>>

\* C17: whatever the keys are, groupMetrics places every evaluation in
\* exactly one type group and one source group, an absent key in "unknown",
\* drops none, and reports for each group its number of members, so the
\* counts sum to the number of evaluations.
C17_GroupPartition ==
    epc \in {"save", "done", "failed"} =>
        /\ mainError = "none"
        /\ \A p \in 1..Len(evaluations) :
              /\ Cardinality({ key \in DOMAIN byType :
                                  \E j \in 1..Len(byType[key]) :
                                      byType[key][j] = evaluations[p] }) = 1
              /\ Cardinality({ key \in DOMAIN bySource :
                                  \E j \in 1..Len(bySource[key]) :
                                      bySource[key][j] = evaluations[p] }) = 1
              /\ evaluations[p].queryType = Absent =>
                    \E j \in 1..Len(byType["unknown"]) :
                        byType["unknown"][j] = evaluations[p]
        /\ \A key \in DOMAIN byType :
              groupedResults.byType[key].count = Len(byType[key])
        /\ \A key \in DOMAIN bySource :
              groupedResults.bySource[key].count = Len(bySource[key])
        /\ CountSum(groupedResults.byType, DOMAIN groupedResults.byType)
              = Len(evaluations)
        /\ CountSum(groupedResults.bySource, DOMAIN groupedResults.bySource)
              = Len(evaluations)

\* the set of the elements of a sequence
Range(q) == { q[p] : p \in 1..Len(q) }

\* C19: downloadCorpusFiles never aborts on one document's failure: it
\* terminates; on return completed + failed.length is the number of ids and
\* failed holds exactly the ids whose download failed; never more than
\* `concurrency` downloads are in flight.
C19_DownloadAll ==
    /\ [](dpc # "idle" => Cardinality(inFlight) <= concurrency)
    /\ [](dpc = "returned" =>
            /\ completed + Len(failed) = docCount
            /\ Range(failed) = downloadFailed
            /\ Len(failed) = Cardinality(downloadFailed)
            /\ inFlight = {})
    /\ <>(dpc = "returned")

\* a return after several batches, with failures and successes
C19_Witness ==
    /\ dpc = "returned"
    /\ docCount = MaxDocs
    /\ concurrency = MaxConcurrency
    /\ Len(failed) >= 2
    /\ completed >= 1
    /\ onDisk # {}

\* C20: with retries >= 1 fetchJson makes at most `retries` fetch attempts,
\* one after the other; it returns the JSON of the first successful attempt
\* and makes no attempt after it; when all attempts fail it throws the error
\* of the last attempt.
C20_FetchRetries ==
    /\ []((fpc # "idle" /\ retries >= 1) =>
            /\ attempts <= retries
            /\ fetching <= 1
            /\ fpc = "returned" =>
                  /\ outcomes[attempts] = "ok"
                  /\ \A p \in 1..(attempts - 1) : outcomes[p] # "ok"
                  /\ fetchResult = attempts
            /\ fpc = "thrown" =>
                  /\ attempts = retries
                  /\ \A p \in 1..retries : outcomes[p] # "ok"
                  /\ fetchError = [attempt |-> retries,
                                   kind |-> outcomes[retries]]
            /\ (Len(outcomes) = retries /\ \A p \in 1..retries : outcomes[p] # "ok")
                  => fpc = "thrown")
    /\ [][(fpc = "returned" \/ fpc = "thrown") => attempts' = attempts]_vars

\* the second of three allowed attempts succeeds
C20_Witness ==
    /\ fpc = "returned"
    /\ retries = MaxRetries
    /\ attempts = 2
    /\ outcomes = <<"http", "ok">>
    /\ fetchResult = 2

\* a fraction of the interval [0, 1]
InUnitInterval(f) == f.den > 0 /\ 0 <= f.num /\ f.num <= f.den

\* C23: for any results list, also one with several chunks of the qrel's
\* doc_id and section_id, every metric of evaluateQuery (mrr, docMrr, ndcg,
\* each recall@k, each precision@k) lies in [0, 1], and docMrr >= mrr.
C23_MetricsInUnitInterval ==
    spc \in {"scored", "applied"} =>
        /\ \A key \in MetricKeys : InUnitInterval(metrics[key])
        /\ metrics.docMrr.num * metrics.mrr.den
              >= metrics.mrr.num * metrics.docMrr.den

\* the entries of runs/index.json
IndexEntries ==
    IF existsSync(runsDir, IndexStem) /\ runsDir[IndexStem].isArray
    THEN runsDir[IndexStem].entries
    ELSE <<>>

\* the stems of the run files present in the runs directory
RunFilesPresent == DOMAIN runsDir \ {IndexStem}

\* C21: after any sequence of completed evaluation runs and DELETE
\* /api/runs/:name requests, runs/index.json holds exactly one entry for
\* every run file present and no entry for a run whose file is absent, also
\* when a run name is reused.
C21_IndexMatchesRunFiles ==
    rpc = "none" =>
        /\ \A name \in RunFilesPresent :
              Cardinality({ p \in DOMAIN IndexEntries :
                              IndexEntries[p].name = name }) = 1
        /\ \A p \in DOMAIN IndexEntries :
              IndexEntries[p].name \in RunFilesPresent

\* the point ids of the b-th points array given to qdrant.upsert
UpsertedIds(b) == { upserted[b][p].id : p \in DOMAIN upserted[b] }

\* C22: in the ingestion loop every document id is counted exactly once, as
\* processed or as failed: after each iteration processedDocs + failedDocs
\* is the number of ids handled so far, whatever step fails, and no two
\* points ever sent to the vector store carry the same point id.
C22_CountedOnce ==
    /\ ipc # "upsert" => processedDocs + failedDocs = docIdx - 1
    /\ \A b \in DOMAIN upserted :
          Cardinality(UpsertedIds(b)) = Len(upserted[b])
    /\ \A b1, b2 \in DOMAIN upserted :
          b1 # b2 => UpsertedIds(b1) \cap UpsertedIds(b2) = {}

====
